---------------------------- MODULE Spec2Model ----------------------------
(***************************************************************************)
(* The active-timer registry of timer_cli (src/src/main.rs): the SQLite    *)
(* tables active_timers and timer_history, the timer processes that        *)
(* register, wait, expire and snooze/restart/stop (main, run_timer), and   *)
(* the live view that polls the registry, reaps stale rows and kills       *)
(* timers on command (show_active_timer_db).                               *)
(*                                                                         *)
(* Every SQL statement is one atomic step; the statements of different     *)
(* processes interleave freely.  Times are in milliseconds.  A burst of    *)
(* statements (one frame of the live view, the statements of a Snooze or   *)
(* Restart) takes far less than one step of the clock, so the clock stands *)
(* still while a process is inside one; waits, the popup and the live      *)
(* view's sleeps let time pass.                                            *)
(***************************************************************************)
EXTENDS Integers, Sequences, FiniteSets, TLC

\* ------------------------------------------------------------------ bounds

\* The wall clock advances in steps of ClockStep ms up to MaxNow ms.
ClockStep == 500
MaxNow == 2000
\* Timer processes and live views are launched in the first MaxStart ms.
MaxStart == 500
\* Snooze/Restart re-entries the timer processes may take in all.
MaxRounds == 2
\* Lines the stdin threads send to their loops over the whole run.
MaxTyped == 1

\* ------------------------------------------------------- program constants

\* let update_interval = 100;
update_interval == 100
\* sleep(Duration::from_secs(1)) at the end of every frame of the view.
FrameSleepMs == 1000
\* sleep(Duration::from_secs(2)) after a command's message.
CommandSleepMs == 2000

\* ------------------------------------------------------------- processes

\* The OS process ids of the timer processes (timer_cli --fg / --background-child).
TimerPids == {11, 12}

\* The command line of each timer process: <duration> [message] [--fg].
DurationArg(p) == IF p = 11 THEN "1s" ELSE "1s 500ms"

MessageArg(p) == IF p = 11 THEN "test" ELSE "tea"

FgArg(p) == p = 12

\* Values of the SNOOZE_TIME environment variable: unset, or set to a string.
SnoozeEnvs == {<<>>, <<"500ms">>, <<"bogus">>}

\* ---------------------------------------------------------------- helpers

Ok(v) == [ok |-> TRUE, val |-> v]

Err == [ok |-> FALSE, val |-> 0]

\* humantime::parse_duration on the duration strings of this model, in ms.
parse_duration(s) ==
    CASE s = "500ms" -> Ok(500)
      [] s = "1s" -> Ok(1000)
      [] s = "1s 500ms" -> Ok(1500)
      [] s = "5m" -> Ok(300000)
      [] OTHER -> Err

\* Duration::as_secs: the whole seconds of a duration given in ms.
as_secs(d) == d \div 1000

\* Local::now().format("%Y-%m-%d %H:%M:%S"): the text keeps whole seconds only.
FormatTimestamp(t) == t \div 1000

\* NaiveDateTime::parse_from_str(.., "%Y-%m-%d %H:%M:%S"), back to ms.
ParseTimestamp(s) == s * 1000

\* chrono::Duration::num_seconds: whole seconds, truncated toward zero.
num_seconds(ms) == IF ms >= 0 THEN ms \div 1000 ELSE -((-ms) \div 1000)

VARIABLES
    active_timers,    \* table active_timers: set of rows
    seq,              \* sqlite_sequence entry of active_timers (AUTOINCREMENT)
    timer_history,    \* table timer_history: rows in insertion order
    now,              \* wall clock, ms
    snooze_env,       \* SNOOZE_TIME in the timers' environment
    pc,               \* timer process -> position in main/run_timer
    duration,         \* run_timer's `duration`, ms
    active_timer_id,  \* run_timer's `active_timer_id`
    wake,             \* end of the current wait of a timer process
    rounds,           \* Snooze/Restart actions taken so far, by all timers
    sigterm,          \* pid -> termination requests sent to it
    mpc,              \* live view -> position in show_active_timer_db's loop
    snapshot,         \* live view's `active_timers` vector of this frame
    idx,              \* position of the display loop in the snapshot
    rendered,         \* ids of the rows printed in this frame
    chan,             \* the mpsc channel from the stdin thread to the loop
    typed,            \* lines sent to the channels so far
    target,           \* the command in progress: its id and the pids it read
    out,              \* the message the last command printed
    mwake             \* end of the live view's current sleep

store == <<active_timers, seq, timer_history>>

timers == <<pc, duration, active_timer_id, wake, rounds>>

monitors == <<mpc, snapshot, idx, rendered, chan, typed, target, out, mwake>>

vars == <<store, now, snooze_env, timers, sigterm, monitors>>

\* ------------------------------------------------------- registry store

Ids(table) == {r.id : r \in table}

Max(S) == CHOOSE x \in S : \A y \in S : y <= x

\* A plain rowid (no AUTOINCREMENT): one more than the largest id in the table.
NextIdRowid(table, s) == Max(Ids(table) \cup {0}) + 1

\* INTEGER PRIMARY KEY AUTOINCREMENT: one more than the largest id ever used,
\* which sqlite_sequence remembers across deletes.
NextId(table, s) == Max(Ids(table) \cup {s}) + 1

\* register_active_timer_db: INSERT INTO active_timers; returns the row id.
register_active_timer_db(table, s, pid, t, duration_str, message) ==
    LET id == NextId(table, s)
    IN  [table |-> table \cup {[id |-> id, pid |-> pid,
                                started |-> FormatTimestamp(t),
                                duration |-> duration_str,
                                message |-> message]},
         seq |-> id,
         id |-> id]

\* DELETE FROM active_timers WHERE id <= ?1: a comparison slip.
unregister_up_to(table, active_id) ==
    {r \in table : r.id > active_id}

\* The DELETE is left out: the old row stays.
unregister_nothing(table, active_id) == table

\* unregister_active_timer_db: DELETE FROM active_timers WHERE id = ?1.
unregister_active_timer_db(table, active_id) ==
    {r \in table : r.id # active_id}

\* INSERT OR REPLACE on a fixed key: the newest entry overwrites the log.
log_overwriting(history, t, duration_str, message, fg) ==
    <<[timestamp |-> FormatTimestamp(t), duration |-> duration_str,
       message |-> message, fg |-> fg]>>

\* log_timer_creation_db: INSERT INTO timer_history.
log_timer_creation_db(history, t, duration_str, message, fg) ==
    Append(history, [timestamp |-> FormatTimestamp(t), duration |-> duration_str,
                     message |-> message, fg |-> fg])

\* get_snooze_duration_and_str: SNOOZE_TIME if set and parseable, else 5 minutes.
get_snooze_duration_and_str(env) ==
    IF Len(env) = 1
    THEN IF parse_duration(env[1]).ok
         THEN [dur |-> parse_duration(env[1]).val, str |-> env[1]]
         ELSE [dur |-> 5 * 60 * 1000, str |-> "5m"]
    ELSE [dur |-> 5 * 60 * 1000, str |-> "5m"]

\* The time one pass of run_timer's loop waits: sleep(duration) in the
\* background, total_ticks + 1 sleeps of update_interval in the foreground.
WaitMillis(d, view) ==
    IF view
    THEN LET total_millis == as_secs(d) * 1000
             total_ticks == total_millis \div update_interval
         IN  (total_ticks + 1) * update_interval
    ELSE d

\* spawn_popup: the popup's trimmed stdout decides the action.
PopupOutputs == {"snooze", "restart", "stop", ""}

TimerAction(stdout) ==
    CASE stdout = "snooze" -> "Snooze"
      [] stdout = "restart" -> "Restart"
      [] OTHER -> "Stop"

\* A timer process that has not exited and was not terminated.
Live(p) == pc[p] \notin {"stopped", "killed", "panicked"}

\* kill_process(pid): SIGTERM ends a live process where it stands.
KillPc(pcs, pids) ==
    [p \in TimerPids |->
        IF p \in pids /\ pcs[p] \notin {"stopped", "killed", "panicked"}
        THEN "killed" ELSE pcs[p]]

\* ----------------------------------------------------------- timer process

\* main: parse the duration, log the creation into timer_history.
TimerLogCreation(p) ==
    /\ pc[p] = "main"
    /\ now <= MaxStart
    /\ parse_duration(DurationArg(p)).ok
    /\ timer_history' = log_timer_creation_db(timer_history, now, DurationArg(p),
                                              MessageArg(p), FgArg(p))
    /\ duration' = [duration EXCEPT ![p] = parse_duration(DurationArg(p)).val]
    /\ pc' = [pc EXCEPT ![p] = "register"]
    /\ UNCHANGED <<active_timers, seq, now, snooze_env, active_timer_id, wake,
                   rounds, sigterm, monitors>>

\* One INSERT of run_timer: the new row, its id, and the next position.
Register(p, duration_str, message, next) ==
    LET r == register_active_timer_db(active_timers, seq, p, now, duration_str,
                                      message)
    IN  /\ active_timers' = r.table
        /\ seq' = r.seq
        /\ active_timer_id' = [active_timer_id EXCEPT ![p] = r.id]
        /\ pc' = [pc EXCEPT ![p] = next]

\* The loop of run_timer starts a wait of `d`.
StartWait(p, d) ==
    /\ duration' = [duration EXCEPT ![p] = d]
    /\ wake' = [wake EXCEPT ![p] = now + WaitMillis(d, FgArg(p))]

\* run_timer: insert the initial record, then enter the wait.
TimerRegister(p) ==
    /\ pc[p] = "register"
    /\ Register(p, DurationArg(p), MessageArg(p), "wait")
    /\ StartWait(p, duration[p])
    /\ UNCHANGED <<timer_history, now, snooze_env, rounds, sigterm, monitors>>

\* The wait is over: "Time's up!", the sound and the popup start.
TimerExpire(p) ==
    /\ pc[p] = "wait"
    /\ now >= wake[p]
    /\ pc' = [pc EXCEPT ![p] = "expired"]
    /\ wake' = [wake EXCEPT ![p] = 0]
    /\ UNCHANGED <<store, now, snooze_env, duration, active_timer_id, rounds,
                   sigterm, monitors>>

\* TimerAction::Snooze, first statement: remove the old record.
TimerSnoozeUnregister(p) ==
    /\ pc[p] = "expired"
    /\ rounds < MaxRounds
    /\ now <= MaxNow
    /\ \E stdout \in PopupOutputs : TimerAction(stdout) = "Snooze"
    /\ active_timers' = unregister_active_timer_db(active_timers, active_timer_id[p])
    /\ rounds' = rounds + 1
    /\ pc' = [pc EXCEPT ![p] = "snooze_register"]
    /\ UNCHANGED <<seq, timer_history, now, snooze_env, duration, active_timer_id,
                   wake, sigterm, monitors>>

\* TimerAction::Snooze, second statement: insert the snoozed record.
TimerSnoozeRegister(p) ==
    /\ pc[p] = "snooze_register"
    /\ Register(p, get_snooze_duration_and_str(snooze_env).str,
                "(Snoozed) " \o MessageArg(p), "snooze_log")
    /\ UNCHANGED <<timer_history, now, snooze_env, duration, wake, rounds,
                   sigterm, monitors>>

\* TimerAction::Snooze, third statement: log it, set the duration, wait again.
TimerSnoozeLog(p) ==
    /\ pc[p] = "snooze_log"
    /\ LET s == get_snooze_duration_and_str(snooze_env)
       IN  /\ timer_history' = log_timer_creation_db(timer_history, now, s.str,
                                    "(Snoozed) " \o MessageArg(p), FALSE)
           /\ StartWait(p, s.dur)
    /\ pc' = [pc EXCEPT ![p] = "wait"]
    /\ UNCHANGED <<active_timers, seq, now, snooze_env, active_timer_id, rounds,
                   sigterm, monitors>>

\* TimerAction::Restart, first statement: remove the old record.
TimerRestartUnregister(p) ==
    /\ pc[p] = "expired"
    /\ rounds < MaxRounds
    /\ now <= MaxNow
    /\ \E stdout \in PopupOutputs : TimerAction(stdout) = "Restart"
    /\ active_timers' = unregister_active_timer_db(active_timers, active_timer_id[p])
    /\ rounds' = rounds + 1
    /\ pc' = [pc EXCEPT ![p] = "restart_register"]
    /\ UNCHANGED <<seq, timer_history, now, snooze_env, duration, active_timer_id,
                   wake, sigterm, monitors>>

\* TimerAction::Restart, second statement: insert the restarted record.
TimerRestartRegister(p) ==
    /\ pc[p] = "restart_register"
    /\ Register(p, DurationArg(p), "(Restarted) " \o MessageArg(p), "restart_log")
    /\ UNCHANGED <<timer_history, now, snooze_env, duration, wake, rounds,
                   sigterm, monitors>>

\* TimerAction::Restart, third statement: log it, re-parse the original duration.
TimerRestartLog(p) ==
    /\ pc[p] = "restart_log"
    /\ timer_history' = log_timer_creation_db(timer_history, now, DurationArg(p),
                                              "(Restarted) " \o MessageArg(p), FALSE)
    /\ StartWait(p, parse_duration(DurationArg(p)).val)
    /\ pc' = [pc EXCEPT ![p] = "wait"]
    /\ UNCHANGED <<active_timers, seq, now, snooze_env, active_timer_id, rounds,
                   sigterm, monitors>>

\* TimerAction::Stop (also any other popup output): remove the record, exit.
TimerStop(p) ==
    /\ pc[p] = "expired"
    /\ \E stdout \in PopupOutputs : TimerAction(stdout) = "Stop"
    /\ active_timers' = unregister_active_timer_db(active_timers, active_timer_id[p])
    /\ pc' = [pc EXCEPT ![p] = "stopped"]
    /\ UNCHANGED <<seq, timer_history, now, snooze_env, duration, active_timer_id,
                   wake, rounds, sigterm, monitors>>

\* ------------------------------------------------------- live view: input

\* The live views (timer_cli --view); the second one is started only in the
\* specifications that say so.
Monitors == {1, 2}

Whitespace == {" ", "\t"}

RECURSIVE TrimStart(_)
TrimStart(s) ==
    IF s # <<>> /\ Head(s) \in Whitespace THEN TrimStart(Tail(s)) ELSE s

RECURSIVE TrimEnd(_)
TrimEnd(s) ==
    IF s # <<>> /\ s[Len(s)] \in Whitespace
    THEN TrimEnd(SubSeq(s, 1, Len(s) - 1)) ELSE s

\* str::trim on a line, a sequence of characters.
trim(s) == TrimEnd(TrimStart(s))

UpperCase == <<"A", "B", "C", "D", "E", "F", "G", "H", "I", "J", "K", "L", "M",
               "N", "O", "P", "Q", "R", "S", "T", "U", "V", "W", "X", "Y", "Z">>

LowerCase == <<"a", "b", "c", "d", "e", "f", "g", "h", "i", "j", "k", "l", "m",
               "n", "o", "p", "q", "r", "s", "t", "u", "v", "w", "x", "y", "z">>

to_ascii_lowercase(c) ==
    IF \E i \in 1..26 : UpperCase[i] = c
    THEN LowerCase[CHOOSE i \in 1..26 : UpperCase[i] = c]
    ELSE c

\* A plain == comparison of the two strings.
eq_exact(a, b) == a = b

\* str::eq_ignore_ascii_case.
eq_ignore_ascii_case(a, b) ==
    /\ Len(a) = Len(b)
    /\ \A i \in 1..Len(a) : to_ascii_lowercase(a[i]) = to_ascii_lowercase(b[i])

Digits == <<"0", "1", "2", "3", "4", "5", "6", "7", "8", "9">>

IsDigit(c) == \E i \in 1..10 : Digits[i] = c

DigitValue(c) == (CHOOSE i \in 1..10 : Digits[i] = c) - 1

RECURSIVE DecimalValue(_)
DecimalValue(s) ==
    IF s = <<>> THEN 0
    ELSE 10 * DecimalValue(SubSeq(s, 1, Len(s) - 1)) + DigitValue(s[Len(s)])

\* A lenient parse that reads the leading digit and ignores what follows.
parse_leading_digit(s) ==
    IF s # <<>> /\ IsDigit(Head(s)) THEN Ok(DigitValue(Head(s))) ELSE Err

\* str::parse::<i64>: an optional sign, then one or more digits (the lines of
\* this model are far shorter than the 19 digits at which i64 overflows).
parse_i64(s) ==
    LET signed == s # <<>> /\ Head(s) \in {"+", "-"}
        digits == IF signed THEN Tail(s) ELSE s
    IN  IF digits # <<>> /\ \A i \in 1..Len(digits) : IsDigit(digits[i])
        THEN Ok(IF signed /\ Head(s) = "-" THEN -DecimalValue(digits)
                ELSE DecimalValue(digits))
        ELSE Err

\* Lines the user may type into a live view.
InputLines == {<<"a", "l", "l">>, <<"A", "l", "L">>, <<"1">>, <<" ", "2", " ">>,
               <<"7">>, <<"x">>, <<"1", "x">>, <<>>, <<" ">>}

\* The rows of a table in id order (ORDER BY id; also the rowid scan order).
RECURSIVE OrderById(_)
OrderById(table) ==
    IF table = {} THEN <<>>
    ELSE LET r == CHOOSE r \in table : \A q \in table : r.id <= q.id
         IN  <<r>> \o OrderById(table \ {r})

Range(f) == {f[i] : i \in DOMAIN f}

NoTarget == [id |-> 0, pids |-> <<>>]

\* -------------------------------------------------------- live view: loop

\* end_time - now of a row at time t, ms: the stored start text parsed back,
\* plus the parsed duration.
time_left(r, t) == ParseTimestamp(r.started) + parse_duration(r.duration).val - t

\* if time_left.num_seconds() < 0: an off-by-one in the comparison.
IsStaleStrict(left) == num_seconds(left) < 0

\* if time_left.num_seconds() <= 0: the row is deleted and not printed.
IsStale(left) == num_seconds(left) <= 0

\* The loop goes to sleep for `ms` and forgets the frame.
Sleep(m, ms) ==
    /\ mpc' = [mpc EXCEPT ![m] = "sleep"]
    /\ mwake' = [mwake EXCEPT ![m] = now + ms]
    /\ snapshot' = [snapshot EXCEPT ![m] = <<>>]
    /\ idx' = [idx EXCEPT ![m] = 0]
    /\ rendered' = [rendered EXCEPT ![m] = {}]
    /\ target' = [target EXCEPT ![m] = NoTarget]

\* Top of the loop, once the sleep is over: SELECT .. FROM active_timers ORDER BY id.
MonitorSnapshot(m) ==
    /\ \/ mpc[m] = "launch" /\ now <= MaxStart
       \/ mpc[m] = "sleep" /\ now >= mwake[m]
    /\ snapshot' = [snapshot EXCEPT ![m] = OrderById(active_timers)]
    /\ idx' = [idx EXCEPT ![m] = 1]
    /\ rendered' = [rendered EXCEPT ![m] = {}]
    /\ out' = [out EXCEPT ![m] = ""]
    /\ mpc' = [mpc EXCEPT ![m] = IF active_timers = {} THEN "poll" ELSE "scan"]
    /\ UNCHANGED <<store, now, snooze_env, timers, sigterm, chan, typed, target,
                   mwake>>

\* A display loop that hides a stale row but leaves it in the table.
MonitorScanNoReap(m) ==
    /\ mpc[m] = "scan"
    /\ LET r == snapshot[m][idx[m]]
       IN  IF parse_duration(r.duration).ok /\ ~IsStale(time_left(r, now))
           THEN rendered' = [rendered EXCEPT ![m] = @ \cup {r.id}]
           ELSE UNCHANGED rendered
    /\ idx' = [idx EXCEPT ![m] = @ + 1]
    /\ mpc' = [mpc EXCEPT ![m] = IF idx[m] = Len(snapshot[m]) THEN "poll" ELSE "scan"]
    /\ UNCHANGED <<store, now, snooze_env, timers, sigterm, snapshot, chan, typed,
                   target, out, mwake>>

\* The display loop reaping with DELETE .. WHERE pid = ?: by owner, not by id.
MonitorScanByPid(m) ==
    /\ mpc[m] = "scan"
    /\ LET r == snapshot[m][idx[m]]
       IN  IF parse_duration(r.duration).ok
           THEN IF IsStale(time_left(r, now))
                THEN /\ active_timers' = {q \in active_timers : q.pid # r.pid}
                     /\ UNCHANGED rendered
                ELSE /\ rendered' = [rendered EXCEPT ![m] = @ \cup {r.id}]
                     /\ UNCHANGED active_timers
           ELSE UNCHANGED <<active_timers, rendered>>
    /\ idx' = [idx EXCEPT ![m] = @ + 1]
    /\ mpc' = [mpc EXCEPT ![m] = IF idx[m] = Len(snapshot[m]) THEN "poll" ELSE "scan"]
    /\ UNCHANGED <<seq, timer_history, now, snooze_env, timers, sigterm, snapshot,
                   chan, typed, target, out, mwake>>

\* One pass of the display loop: the row is skipped (unparseable duration),
\* deleted (stale) or printed.
MonitorScan(m) ==
    /\ mpc[m] = "scan"
    /\ LET r == snapshot[m][idx[m]]
       IN  IF parse_duration(r.duration).ok
           THEN IF IsStale(time_left(r, now))
                THEN /\ active_timers' = {q \in active_timers : q.id # r.id}
                     /\ UNCHANGED rendered
                ELSE /\ rendered' = [rendered EXCEPT ![m] = @ \cup {r.id}]
                     /\ UNCHANGED active_timers
           ELSE UNCHANGED <<active_timers, rendered>>
    /\ idx' = [idx EXCEPT ![m] = @ + 1]
    /\ mpc' = [mpc EXCEPT ![m] = IF idx[m] = Len(snapshot[m]) THEN "poll" ELSE "scan"]
    /\ UNCHANGED <<seq, timer_history, now, snooze_env, timers, sigterm, snapshot,
                   chan, typed, target, out, mwake>>

\* The lines are handed over through a stack: the newest line is taken first.
MonitorInputStacked(m, line) ==
    /\ mpc[m] = "poll"
    /\ typed < MaxTyped
    /\ now <= MaxNow
    /\ IF trim(line) # <<>>
       THEN /\ chan' = [chan EXCEPT ![m] = <<trim(line)>> \o @]
            /\ typed' = typed + 1
       ELSE UNCHANGED <<chan, typed>>
    /\ UNCHANGED <<store, now, snooze_env, timers, sigterm, mpc, snapshot, idx,
                   rendered, target, out, mwake>>

\* The stdin thread: a line is read, trimmed and, unless empty, sent.  Nobody
\* sees the channel before the loop's try_recv, so the send is taken when the
\* loop stands at its poll.
MonitorInput(m, line) ==
    /\ mpc[m] = "poll"
    /\ typed < MaxTyped
    /\ now <= MaxNow
    /\ IF trim(line) # <<>>
       THEN /\ chan' = [chan EXCEPT ![m] = Append(@, trim(line))]
            /\ typed' = typed + 1
       ELSE UNCHANGED <<chan, typed>>
    /\ UNCHANGED <<store, now, snooze_env, timers, sigterm, mpc, snapshot, idx,
                   rendered, target, out, mwake>>

\* rx.recv() in place of try_recv(): with nothing in the channel the loop
\* stays where it is until a line arrives.
MonitorPollBlocks(m) ==
    /\ mpc[m] = "poll"
    /\ chan[m] # <<>>
    /\ UNCHANGED vars

\* rx.try_recv() finds nothing: sleep one second.
MonitorPollEmpty(m) ==
    /\ mpc[m] = "poll"
    /\ chan[m] = <<>>
    /\ Sleep(m, FrameSleepMs)
    /\ UNCHANGED <<store, now, snooze_env, timers, sigterm, chan, typed, out>>

\* "all" taking the process ids from the rows this frame printed, not from
\* a query.
MonitorCmdAllDisplayed(m) ==
    /\ mpc[m] = "poll"
    /\ chan[m] # <<>>
    /\ eq_ignore_ascii_case(Head(chan[m]), <<"a", "l", "l">>)
    /\ chan' = [chan EXCEPT ![m] = Tail(@)]
    /\ target' = [target EXCEPT ![m] =
                    [id |-> 0,
                     pids |-> SelectSeq([i \in DOMAIN snapshot[m] |-> snapshot[m][i].pid],
                                        LAMBDA q : \E i \in DOMAIN snapshot[m] :
                                                      /\ snapshot[m][i].pid = q
                                                      /\ snapshot[m][i].id \in rendered[m])]]
    /\ mpc' = [mpc EXCEPT ![m] = "all_kill"]
    /\ UNCHANGED <<store, now, snooze_env, timers, sigterm, snapshot, idx, rendered,
                   typed, out, mwake>>

\* "all": SELECT pid FROM active_timers.
MonitorCmdAll(m) ==
    /\ mpc[m] = "poll"
    /\ chan[m] # <<>>
    /\ eq_ignore_ascii_case(Head(chan[m]), <<"a", "l", "l">>)
    /\ chan' = [chan EXCEPT ![m] = Tail(@)]
    /\ target' = [target EXCEPT ![m] =
                    [id |-> 0,
                     pids |-> [i \in 1..Cardinality(active_timers) |->
                                  OrderById(active_timers)[i].pid]]]
    /\ mpc' = [mpc EXCEPT ![m] = "all_kill"]
    /\ UNCHANGED <<store, now, snooze_env, timers, sigterm, snapshot, idx, rendered,
                   typed, out, mwake>>

\* "all": kill_process for every row read.
MonitorAllKill(m) ==
    /\ mpc[m] = "all_kill"
    /\ sigterm' = [p \in TimerPids |->
                      sigterm[p] + Cardinality({i \in DOMAIN target[m].pids :
                                                   target[m].pids[i] = p})]
    /\ pc' = KillPc(pc, Range(target[m].pids))
    /\ mpc' = [mpc EXCEPT ![m] = "all_delete"]
    /\ UNCHANGED <<store, now, snooze_env, duration, active_timer_id, wake, rounds,
                   snapshot, idx, rendered, chan, typed, target, out, mwake>>

\* "all": DELETE FROM active_timers, the message, the two-second pause.
MonitorAllDelete(m) ==
    /\ mpc[m] = "all_delete"
    /\ active_timers' = {}
    /\ out' = [out EXCEPT ![m] = "Killed all active timers."]
    /\ Sleep(m, CommandSleepMs + FrameSleepMs)
    /\ UNCHANGED <<seq, timer_history, now, snooze_env, timers, sigterm, chan, typed>>

\* A number: SELECT pid FROM active_timers WHERE id = ?1 finds a row.
MonitorCmdId(m) ==
    /\ mpc[m] = "poll"
    /\ chan[m] # <<>>
    /\ ~eq_ignore_ascii_case(Head(chan[m]), <<"a", "l", "l">>)
    /\ parse_i64(Head(chan[m])).ok
    /\ LET active_id == parse_i64(Head(chan[m])).val
       IN  /\ \E r \in active_timers : r.id = active_id
           /\ target' = [target EXCEPT ![m] =
                 [id |-> active_id,
                  pids |-> <<(CHOOSE r \in active_timers : r.id = active_id).pid>>]]
    /\ chan' = [chan EXCEPT ![m] = Tail(@)]
    /\ mpc' = [mpc EXCEPT ![m] = "id_kill"]
    /\ UNCHANGED <<store, now, snooze_env, timers, sigterm, snapshot, idx, rendered,
                   typed, out, mwake>>

\* A number: kill_process(pid), "Killed timer with PID ..".
MonitorIdKill(m) ==
    /\ mpc[m] = "id_kill"
    /\ sigterm' = [sigterm EXCEPT ![target[m].pids[1]] = @ + 1]
    /\ pc' = KillPc(pc, {target[m].pids[1]})
    /\ out' = [out EXCEPT ![m] = "Killed timer with PID"]
    /\ mpc' = [mpc EXCEPT ![m] = "id_delete"]
    /\ UNCHANGED <<store, now, snooze_env, duration, active_timer_id, wake, rounds,
                   snapshot, idx, rendered, chan, typed, target, mwake>>

\* The branch without its DELETE: the record is left to the next frame's reap.
MonitorIdKeep(m) ==
    /\ mpc[m] = "id_delete"
    /\ Sleep(m, CommandSleepMs + FrameSleepMs)
    /\ UNCHANGED <<store, now, snooze_env, timers, sigterm, chan, typed, out>>

\* A number: DELETE FROM active_timers WHERE id = ?1, the two-second pause.
MonitorIdDelete(m) ==
    /\ mpc[m] = "id_delete"
    /\ active_timers' = {q \in active_timers : q.id # target[m].id}
    /\ Sleep(m, CommandSleepMs + FrameSleepMs)
    /\ UNCHANGED <<seq, timer_history, now, snooze_env, timers, sigterm, chan, typed,
                   out>>

\* A number that is no row's id: "No active timer with that ID.".
MonitorCmdNotFound(m) ==
    /\ mpc[m] = "poll"
    /\ chan[m] # <<>>
    /\ ~eq_ignore_ascii_case(Head(chan[m]), <<"a", "l", "l">>)
    /\ parse_i64(Head(chan[m])).ok
    /\ ~\E r \in active_timers : r.id = parse_i64(Head(chan[m])).val
    /\ chan' = [chan EXCEPT ![m] = Tail(@)]
    /\ out' = [out EXCEPT ![m] = "No active timer with that ID."]
    /\ Sleep(m, CommandSleepMs + FrameSleepMs)
    /\ UNCHANGED <<store, now, snooze_env, timers, sigterm, typed>>

\* Anything else: "Invalid input.".
MonitorCmdInvalid(m) ==
    /\ mpc[m] = "poll"
    /\ chan[m] # <<>>
    /\ ~eq_ignore_ascii_case(Head(chan[m]), <<"a", "l", "l">>)
    /\ ~parse_i64(Head(chan[m])).ok
    /\ chan' = [chan EXCEPT ![m] = Tail(@)]
    /\ out' = [out EXCEPT ![m] = "Invalid input."]
    /\ Sleep(m, CommandSleepMs + FrameSleepMs)
    /\ UNCHANGED <<store, now, snooze_env, timers, sigterm, typed>>

\* ------------------------------------------------------------------ clock

\* play_sound_loop finds no audio device, or spawn_popup cannot start the
\* popup: .expect() panics and the process ends where it stands.
TimerPanic(p) ==
    /\ pc[p] = "expired"
    /\ pc' = [pc EXCEPT ![p] = "panicked"]
    /\ UNCHANGED <<store, now, snooze_env, duration, active_timer_id, wake, rounds,
                   sigterm, monitors>>

\* The timer process is terminated from outside (kill, logout, shutdown).
TimerKilled(p) ==
    /\ Live(p)
    /\ pc[p] # "main"
    /\ pc' = KillPc(pc, {p})
    /\ UNCHANGED <<store, now, snooze_env, duration, active_timer_id, wake, rounds,
                   sigterm, monitors>>

\* A timer process inside a burst of statements, or whose wait is over.
InBurst(p) ==
    \/ pc[p] \in {"register", "snooze_register", "snooze_log", "restart_register",
                  "restart_log"}
    \/ pc[p] = "wait" /\ now >= wake[p]

\* A live view inside a frame, or whose sleep is over.
MonitorInBurst(m) ==
    \/ mpc[m] \in {"scan", "poll", "all_kill", "all_delete", "id_kill", "id_delete"}
    \/ mpc[m] = "sleep" /\ now >= mwake[m]

Tick ==
    /\ now + ClockStep <= MaxNow
    /\ \A p \in TimerPids : InBurst(p) = FALSE
    /\ \A m \in Monitors : MonitorInBurst(m) = FALSE
    /\ now' = now + ClockStep
    /\ UNCHANGED <<store, snooze_env, timers, sigterm, monitors>>

\* The clock after MaxNow.  No Snooze or Restart starts and no line is typed
\* any more; time runs on until the records inserted last (the longest
\* duration is 1500 ms) are past their end and a live view pausing after a
\* command has slept it out.
MaxLate == MaxNow + 1500 + CommandSleepMs + FrameSleepMs

TickLate ==
    /\ now + ClockStep > MaxNow
    /\ now + ClockStep <= MaxLate
    /\ \A p \in TimerPids : InBurst(p) = FALSE
    /\ \A m \in Monitors : MonitorInBurst(m) = FALSE
    /\ now' = now + ClockStep
    /\ UNCHANGED <<store, snooze_env, timers, sigterm, monitors>>

\* A handler that tidies up before it exits: it removes the rows this frame
\* has shown.
MonitorInterruptCleans(m) ==
    /\ mpc[m] \notin {"off", "launch", "exited", "failed"}
    /\ active_timers' = {r \in active_timers : r.id \notin rendered[m]}
    /\ mpc' = [mpc EXCEPT ![m] = "exited"]
    /\ mwake' = [mwake EXCEPT ![m] = 0]
    /\ snapshot' = [snapshot EXCEPT ![m] = <<>>]
    /\ idx' = [idx EXCEPT ![m] = 0]
    /\ rendered' = [rendered EXCEPT ![m] = {}]
    /\ target' = [target EXCEPT ![m] = NoTarget]
    /\ chan' = [chan EXCEPT ![m] = <<>>]
    /\ out' = [out EXCEPT ![m] = ""]
    /\ UNCHANGED <<seq, timer_history, now, snooze_env, timers, sigterm, typed>>

\* handle_sigint: Ctrl+C ends the live view at once, process::exit(0).
MonitorInterrupt(m) ==
    /\ mpc[m] \notin {"off", "launch", "exited", "failed"}
    /\ mpc' = [mpc EXCEPT ![m] = "exited"]
    /\ mwake' = [mwake EXCEPT ![m] = 0]
    /\ snapshot' = [snapshot EXCEPT ![m] = <<>>]
    /\ idx' = [idx EXCEPT ![m] = 0]
    /\ rendered' = [rendered EXCEPT ![m] = {}]
    /\ target' = [target EXCEPT ![m] = NoTarget]
    /\ chan' = [chan EXCEPT ![m] = <<>>]
    /\ out' = [out EXCEPT ![m] = ""]
    /\ UNCHANGED <<store, now, snooze_env, timers, sigterm, typed>>

\* ----------------------------------------------------------- store errors

\* A statement of the live view returns Err (database locked past the busy
\* timeout, table or file gone, I/O error) and `?` hands it to the caller:
\* show_active_timer_db returns, main's .unwrap() panics, the process ends.
Fails(m) ==
    /\ mpc' = [mpc EXCEPT ![m] = "failed"]
    /\ mwake' = [mwake EXCEPT ![m] = 0]
    /\ snapshot' = [snapshot EXCEPT ![m] = <<>>]
    /\ idx' = [idx EXCEPT ![m] = 0]
    /\ rendered' = [rendered EXCEPT ![m] = {}]
    /\ target' = [target EXCEPT ![m] = NoTarget]
    /\ chan' = [chan EXCEPT ![m] = <<>>]
    /\ out' = [out EXCEPT ![m] = ""]

\* conn.prepare(..)? / stmt.query_map(..)? / timer? of the frame's query fail.
MonitorSnapshotError(m) ==
    /\ \/ mpc[m] = "launch" /\ now <= MaxStart
       \/ mpc[m] = "sleep" /\ now >= mwake[m]
    /\ Fails(m)
    /\ UNCHANGED <<store, now, snooze_env, timers, sigterm, typed>>

\* let _ = conn.execute("DELETE ..") of a stale row fails: the result is
\* dropped, the row stays in the table and is not printed.
MonitorReapError(m) ==
    /\ mpc[m] = "scan"
    /\ LET r == snapshot[m][idx[m]]
       IN  /\ parse_duration(r.duration).ok
           /\ IsStale(time_left(r, now))
    /\ idx' = [idx EXCEPT ![m] = @ + 1]
    /\ mpc' = [mpc EXCEPT ![m] = IF idx[m] = Len(snapshot[m]) THEN "poll" ELSE "scan"]
    /\ UNCHANGED <<store, now, snooze_env, timers, sigterm, snapshot, rendered,
                   chan, typed, target, out, mwake>>

\* "all": conn.prepare("SELECT pid ..")? / stmt.query([])? / rows.next()? fail.
MonitorCmdAllError(m) ==
    /\ mpc[m] = "poll"
    /\ chan[m] # <<>>
    /\ eq_ignore_ascii_case(Head(chan[m]), <<"a", "l", "l">>)
    /\ Fails(m)
    /\ UNCHANGED <<store, now, snooze_env, timers, sigterm, typed>>

\* "all": conn.execute("DELETE FROM active_timers", [])? fails after the
\* processes were signalled.
MonitorAllDeleteError(m) ==
    /\ mpc[m] = "all_delete"
    /\ Fails(m)
    /\ UNCHANGED <<store, now, snooze_env, timers, sigterm, typed>>

\* A number: conn.prepare("SELECT pid .. WHERE id = ?1")? / query? / next? fail.
MonitorCmdIdError(m) ==
    /\ mpc[m] = "poll"
    /\ chan[m] # <<>>
    /\ ~eq_ignore_ascii_case(Head(chan[m]), <<"a", "l", "l">>)
    /\ parse_i64(Head(chan[m])).ok
    /\ Fails(m)
    /\ UNCHANGED <<store, now, snooze_env, timers, sigterm, typed>>

\* A number: let _ = conn.execute("DELETE .. WHERE id = ?1") fails: the
\* result is dropped, the row stays, the loop pauses and goes on.
MonitorIdDeleteError(m) ==
    /\ mpc[m] = "id_delete"
    /\ Sleep(m, CommandSleepMs + FrameSleepMs)
    /\ UNCHANGED <<store, now, snooze_env, timers, sigterm, chan, typed, out>>

\* ------------------------------------------------------------------- init

Init ==
    /\ active_timers = {}
    /\ seq = 0
    /\ timer_history = <<>>
    /\ now = 0
    /\ snooze_env \in SnoozeEnvs
    /\ pc = [p \in TimerPids |-> "main"]
    /\ duration = [p \in TimerPids |-> 0]
    /\ active_timer_id = [p \in TimerPids |-> 0]
    /\ wake = [p \in TimerPids |-> 0]
    /\ rounds = 0
    /\ sigterm = [p \in TimerPids |-> 0]
    /\ mpc = [m \in Monitors |-> IF m = 1 THEN "launch" ELSE "off"]
    /\ snapshot = [m \in Monitors |-> <<>>]
    /\ idx = [m \in Monitors |-> 0]
    /\ rendered = [m \in Monitors |-> {}]
    /\ chan = [m \in Monitors |-> <<>>]
    /\ typed = 0
    /\ target = [m \in Monitors |-> NoTarget]
    /\ out = [m \in Monitors |-> ""]
    /\ mwake = [m \in Monitors |-> 0]

TimerNext(p) ==
    \/ TimerLogCreation(p)
    \/ TimerRegister(p)
    \/ TimerExpire(p)
    \/ TimerSnoozeUnregister(p)
    \/ TimerSnoozeRegister(p)
    \/ TimerSnoozeLog(p)
    \/ TimerRestartUnregister(p)
    \/ TimerRestartRegister(p)
    \/ TimerRestartLog(p)
    \/ TimerStop(p)
    \/ TimerPanic(p)

MonitorNext(m) ==
    \/ MonitorSnapshot(m)
    \/ MonitorScan(m)
    \/ \E line \in InputLines : MonitorInput(m, line)
    \/ MonitorPollEmpty(m)
    \/ MonitorCmdAll(m)
    \/ MonitorAllKill(m)
    \/ MonitorAllDelete(m)
    \/ MonitorCmdId(m)
    \/ MonitorIdKill(m)
    \/ MonitorIdDelete(m)
    \/ MonitorCmdNotFound(m)
    \/ MonitorCmdInvalid(m)
    \/ MonitorInterrupt(m)

Next ==
    \/ \E p \in TimerPids : TimerNext(p)
    \/ \E m \in Monitors : MonitorNext(m)
    \/ Tick

Spec == Init /\ [][Next]_vars

\* A shorter run: SNOOZE_TIME=500ms, one Snooze or Restart and one typed line
\* are left, and the live views of `views` are started.
InitShort(views) ==
    /\ active_timers = {}
    /\ seq = 0
    /\ timer_history = <<>>
    /\ now = 0
    /\ snooze_env = <<"500ms">>
    /\ pc = [p \in TimerPids |-> "main"]
    /\ duration = [p \in TimerPids |-> 0]
    /\ active_timer_id = [p \in TimerPids |-> 0]
    /\ wake = [p \in TimerPids |-> 0]
    /\ rounds = MaxRounds - 1
    /\ sigterm = [p \in TimerPids |-> 0]
    /\ mpc = [m \in Monitors |-> IF m \in views THEN "launch" ELSE "off"]
    /\ snapshot = [m \in Monitors |-> <<>>]
    /\ idx = [m \in Monitors |-> 0]
    /\ rendered = [m \in Monitors |-> {}]
    /\ chan = [m \in Monitors |-> <<>>]
    /\ typed = MaxTyped - 1
    /\ target = [m \in Monitors |-> NoTarget]
    /\ out = [m \in Monitors |-> ""]
    /\ mwake = [m \in Monitors |-> 0]

\* The statements a timer process executes without waiting for anything but
\* the processor and the clock.
TimerRuns(p) ==
    \/ TimerLogCreation(p)
    \/ TimerRegister(p)
    \/ TimerExpire(p)
    \/ TimerSnoozeRegister(p)
    \/ TimerSnoozeLog(p)
    \/ TimerRestartRegister(p)
    \/ TimerRestartLog(p)

\* The steps of the live view's loop thread (not the stdin thread, not Ctrl+C).
MonitorRuns(m) ==
    \/ MonitorSnapshot(m)
    \/ MonitorScan(m)
    \/ MonitorPollEmpty(m)
    \/ MonitorCmdAll(m)
    \/ MonitorAllKill(m)
    \/ MonitorAllDelete(m)
    \/ MonitorCmdId(m)
    \/ MonitorIdKill(m)
    \/ MonitorIdDelete(m)
    \/ MonitorCmdNotFound(m)
    \/ MonitorCmdInvalid(m)

\* The operating system keeps running every process that can run, and the
\* clock keeps advancing: sleeps end, statements complete.
SpecFair ==
    /\ InitShort({1})
    /\ [][Next]_vars
    /\ WF_vars(Tick)
    /\ \A p \in TimerPids : WF_vars(TimerRuns(p))
    /\ \A m \in Monitors : WF_vars(MonitorRuns(m))

\* Two live views are started, in two terminals.
InitTwoViews == InitShort({1, 2})

SpecTwoViews == InitTwoViews /\ [][Next]_vars

\* The same program on a store whose statements may fail in the live view.
MonitorStoreError(m) ==
    \/ MonitorSnapshotError(m)
    \/ MonitorReapError(m)
    \/ MonitorCmdAllError(m)
    \/ MonitorAllDeleteError(m)
    \/ MonitorCmdIdError(m)
    \/ MonitorIdDeleteError(m)

NextStoreErrors ==
    \/ Next
    \/ \E m \in Monitors : MonitorStoreError(m)

SpecStoreErrors == Init /\ [][NextStoreErrors]_vars

\* A frame of the live view with nothing typed: the query, the display loop,
\* the empty try_recv and the one-second sleep.
MonitorFrames(m) ==
    \/ MonitorSnapshot(m)
    \/ MonitorScan(m)
    \/ MonitorPollEmpty(m)

\* The timers, which may also be terminated from outside, and a live view
\* into which nothing is typed, followed past MaxNow.
NextKilled ==
    \/ \E p \in TimerPids : TimerNext(p)
    \/ \E p \in TimerPids : TimerKilled(p)
    \/ \E m \in Monitors : MonitorFrames(m)
    \/ \E m \in Monitors : MonitorInterrupt(m)
    \/ Tick
    \/ TickLate

\* Every process that can run keeps running and the clock keeps advancing.
SpecKilled ==
    /\ InitShort({1})
    /\ [][NextKilled]_vars
    /\ WF_vars(Tick)
    /\ WF_vars(TickLate)
    /\ \A p \in TimerPids : WF_vars(TimerRuns(p))
    /\ \A m \in Monitors : WF_vars(MonitorFrames(m))

\* Lines typed into the live view in the specification about its input: a
\* command of each kind and a blank line.
TypedLines == {<<"a", "l", "l">>, <<" ", "2", " ">>, <<"x">>, <<" ">>}

\* SNOOZE_TIME=500ms, one Snooze or Restart is left, and two lines are still
\* to be sent to the channel of live view 1.
InitTyping ==
    /\ active_timers = {}
    /\ seq = 0
    /\ timer_history = <<>>
    /\ now = 0
    /\ snooze_env = <<"500ms">>
    /\ pc = [p \in TimerPids |-> "main"]
    /\ duration = [p \in TimerPids |-> 0]
    /\ active_timer_id = [p \in TimerPids |-> 0]
    /\ wake = [p \in TimerPids |-> 0]
    /\ rounds = MaxRounds - 1
    /\ sigterm = [p \in TimerPids |-> 0]
    /\ mpc = [m \in Monitors |-> IF m = 1 THEN "launch" ELSE "off"]
    /\ snapshot = [m \in Monitors |-> <<>>]
    /\ idx = [m \in Monitors |-> 0]
    /\ rendered = [m \in Monitors |-> {}]
    /\ chan = [m \in Monitors |-> <<>>]
    /\ typed = MaxTyped - 2
    /\ target = [m \in Monitors |-> NoTarget]
    /\ out = [m \in Monitors |-> ""]
    /\ mwake = [m \in Monitors |-> 0]

NextTyping ==
    \/ \E p \in TimerPids : TimerNext(p)
    \/ \E m \in Monitors : MonitorRuns(m)
    \/ \E m \in Monitors, line \in TypedLines : MonitorInput(m, line)
    \/ \E m \in Monitors : MonitorInterrupt(m)
    \/ Tick
    \/ TickLate

\* Every process that can run keeps running and the clock keeps advancing.
SpecTyping ==
    /\ InitTyping
    /\ [][NextTyping]_vars
    /\ WF_vars(Tick)
    /\ WF_vars(TickLate)
    /\ \A p \in TimerPids : WF_vars(TimerRuns(p))
    /\ \A m \in Monitors : WF_vars(MonitorRuns(m))

\* The clock in steps of the countdown's tick, for the timers alone.
TickFine ==
    /\ now + update_interval <= MaxNow
    /\ \A p \in TimerPids : InBurst(p) = FALSE
    /\ now' = now + update_interval
    /\ UNCHANGED <<store, snooze_env, timers, sigterm, monitors>>

\* The timer processes with no live view running, at the resolution of the
\* foreground countdown.
NextTimers ==
    \/ \E p \in TimerPids : TimerNext(p)
    \/ TickFine

SpecTimers == InitShort({}) /\ [][NextTimers]_vars

\* ------------------------------------------------------------ properties

\* C1: the registry never holds two records with the same id; every record
\* that enters the registry has an id greater than every id assigned before
\* (seq, the highest id assigned so far, and every id still in the table);
\* the highest assigned id never goes down, also when the table is emptied by
\* the "all" command, so no id is used twice.
C1_IdsUniqueIncreasing ==
    [][LET new == active_timers' \ active_timers
       IN  /\ \A r, q \in active_timers' : r.id = q.id => r = q
           /\ \A r \in active_timers' : r.id <= seq'
           /\ seq' >= seq
           /\ Cardinality(new) <= 1
           /\ \A r \in new : /\ r.id > seq
                             /\ \A q \in active_timers : r.id > q.id
                             /\ seq' = r.id
           /\ new = {} => seq' = seq]_vars

\* A timer registered after the "all" command emptied the table, with an id
\* above the ones deleted.
C1_Witness ==
    \E m \in Monitors :
        /\ out[m] = "Killed all active timers."
        /\ seq > 1
        /\ \E r \in active_timers : r.id = seq

\* A timer process executes unregister_active_timer_db in this step.
Unregisters(p) ==
    /\ pc[p] = "expired"
    /\ pc'[p] \in {"stopped", "snooze_register", "restart_register"}

\* C2: removing an id that is not in the registry succeeds (the process goes
\* on to its next position) and leaves the registry unchanged; for every
\* reachable registry and every id, removing the id twice gives the registry
\* that removing it once gives, and removing an absent id gives the registry
\* itself.
C2_RemoveAbsentIsNoOp ==
    [][/\ \A p \in TimerPids :
             Unregisters(p) /\ active_timer_id[p] \notin Ids(active_timers)
                => active_timers' = active_timers
       /\ \A id \in 0..(seq + 1) :
             LET once == unregister_active_timer_db(active_timers, id)
             IN  /\ unregister_active_timer_db(once, id) = once
                 /\ id \notin Ids(active_timers) => once = active_timers
                 /\ Ids(once) = Ids(active_timers) \ {id}]_vars

\* Both the live view and the owning timer have removed the same record within
\* one frame, while another record stays: the later of the two removals found
\* the id gone.
C2_Witness ==
    \E m \in Monitors, p \in TimerPids :
        \E i \in DOMAIN snapshot[m] :
            /\ i < idx[m]
            /\ snapshot[m][i].id = active_timer_id[p]
            /\ snapshot[m][i].id \notin rendered[m]
            /\ pc[p] = "stopped"
            /\ active_timers # {}

\* The live view m executes one pass of its display loop in this step.
Scans(m) == mpc[m] = "scan" /\ idx'[m] = idx[m] + 1

\* C3: a snapshot record whose remaining time, computed when the display loop
\* reaches it, is <= 0 is deleted from the registry by that pass and is not
\* printed in that frame; and at every point of a frame each record the loop
\* has passed is either printed or absent from the registry.
C3_StaleIsReaped ==
    [][\A m \in Monitors :
          /\ Scans(m) =>
                LET r == snapshot[m][idx[m]]
                IN  ParseTimestamp(r.started) + parse_duration(r.duration).val - now <= 0
                       => /\ r.id \notin Ids(active_timers')
                          /\ r.id \notin rendered'[m]
          /\ \A i \in DOMAIN snapshot'[m] :
                i < idx'[m] =>
                   \/ snapshot'[m][i].id \in rendered'[m]
                   \/ snapshot'[m][i].id \notin Ids(active_timers')]_vars

\* A frame has passed a record whose deadline is reached (remaining time <= 0,
\* here exactly 0 or below): it is neither printed nor in the registry.
C3_Witness ==
    \E m \in Monitors :
        /\ mpc[m] = "poll"
        /\ \E i \in DOMAIN snapshot[m] :
              LET r == snapshot[m][i]
              IN  /\ ParseTimestamp(r.started) + parse_duration(r.duration).val <= now
                  /\ r.id \notin rendered[m]
                  /\ r.id \notin Ids(active_timers)

\* The records of timer process p in the registry.
RecordsOf(p) == {r \in active_timers : r.pid = p}

\* The snooze span the environment configures, as the record must show it and
\* in ms: SNOOZE_TIME when it is set to a duration, five minutes otherwise.
ConfiguredSnoozeStr == IF snooze_env = <<"500ms">> THEN "500ms" ELSE "5m"

ConfiguredSnoozeMs == IF snooze_env = <<"500ms">> THEN 500 ELSE 300000

\* The original duration of each timer process, in ms.
OriginalMs(p) == IF p = 11 THEN 1000 ELSE 1500

\* C4: on Snooze the old record is gone and exactly one new record with a new
\* id is inserted, with message "(Snoozed) " + message and the configured
\* snooze span ("5m" when SNOOZE_TIME is unset or unparseable) as its duration;
\* the wait that follows lasts at least the parse of that duration (and at
\* most one countdown tick more).
C4_SnoozeReplacesAndWaits ==
    [][\A p \in TimerPids :
          /\ (pc[p] = "snooze_register" /\ pc'[p] = "snooze_log") =>
                LET new == active_timers' \ active_timers
                IN  /\ active_timer_id[p] \notin Ids(active_timers')
                    /\ Cardinality(new) = 1
                    /\ \A r \in new :
                          /\ r.id \notin Ids(active_timers)
                          /\ r.id # active_timer_id[p]
                          /\ r.pid = p
                          /\ r.message = "(Snoozed) " \o MessageArg(p)
                          /\ r.duration = ConfiguredSnoozeStr
          /\ (pc[p] = "snooze_log" /\ pc'[p] = "wait") =>
                /\ wake'[p] - now >= ConfiguredSnoozeMs
                /\ wake'[p] - now <= ConfiguredSnoozeMs + update_interval]_vars

\* C5: on Restart, whatever Snooze and Restart actions came before, the old
\* record is gone and the new record carries the duration string the timer was
\* created with; the wait that follows lasts at least that original duration
\* (and at most one countdown tick more).
C5_RestartUsesOriginal ==
    [][\A p \in TimerPids :
          /\ (pc[p] = "restart_register" /\ pc'[p] = "restart_log") =>
                LET new == active_timers' \ active_timers
                IN  /\ active_timer_id[p] \notin Ids(active_timers')
                    /\ Cardinality(new) = 1
                    /\ \A r \in new :
                          /\ r.pid = p
                          /\ r.duration = DurationArg(p)
          /\ (pc[p] = "restart_log" /\ pc'[p] = "wait") =>
                /\ wake'[p] - now >= OriginalMs(p)
                /\ wake'[p] - now <= OriginalMs(p) + update_interval]_vars

\* Timer process p has taken no Snooze and no Restart so far.
NoReentry(p) ==
    /\ pc[p] \notin {"snooze_register", "snooze_log", "restart_register",
                     "restart_log"}
    /\ \A i \in DOMAIN timer_history :
          timer_history[i].message \notin {"(Snoozed) " \o MessageArg(p),
                                           "(Restarted) " \o MessageArg(p)}

\* C6: a timer that takes no Snooze and no Restart has, while it waits, exactly
\* one record, with the duration it was created with; after Stop it has no
\* record; and from its creation on the history holds exactly one entry with
\* its duration and message.
C6_PlainLifecycle ==
    \A p \in TimerPids :
        NoReentry(p) =>
           /\ pc[p] = "wait" =>
                 /\ Cardinality(RecordsOf(p)) = 1
                 /\ \A r \in RecordsOf(p) : r.duration = DurationArg(p)
           /\ pc[p] = "stopped" => RecordsOf(p) = {}
           /\ pc[p] \in {"wait", "expired", "stopped"} =>
                 Cardinality({i \in DOMAIN timer_history :
                                 /\ timer_history[i].duration = DurationArg(p)
                                 /\ timer_history[i].message = MessageArg(p)}) = 1

\* The spellings of the "all" command among the lines of this model.
AllTokens == {<<"a", "l", "l">>, <<"A", "l", "L">>}

\* The live view m takes a command off its channel in this step.
Consumes(m) ==
    /\ mpc[m] = "poll"
    /\ chan[m] # <<>>
    /\ chan'[m] = Tail(chan[m])
    /\ mpc'[m] # "exited"

\* C7: the command "all", in any letter case, reads the process id of every
\* record in the registry, sends each of them one termination request per
\* record, and leaves the registry empty when it completes.
C7_AllKillsAndClears ==
    [][\A m \in Monitors :
          /\ (Consumes(m) /\ Head(chan[m]) \in AllTokens) =>
                /\ mpc'[m] = "all_kill"
                /\ Range(target'[m].pids) = {r.pid : r \in active_timers}
                /\ Len(target'[m].pids) = Cardinality(active_timers)
          /\ (mpc[m] = "all_kill" /\ mpc'[m] = "all_delete") =>
                /\ \A p \in Range(target[m].pids) :
                      /\ sigterm'[p] > sigterm[p]
                      /\ ~Live(p)'
                /\ \A p \in TimerPids \ Range(target[m].pids) :
                      sigterm'[p] = sigterm[p]
          /\ (mpc[m] = "all_delete" /\ mpc'[m] = "sleep") =>
                /\ active_timers' = {}
                /\ out'[m] = "Killed all active timers."]_vars

\* "all" has completed on a registry that held the records of both timers:
\* both were sent a termination request and the registry is empty.
C7_Witness ==
    \E m \in Monitors :
        /\ out[m] = "Killed all active timers."
        /\ mpc[m] = "sleep"
        /\ active_timers = {}
        /\ \A p \in TimerPids : sigterm[p] >= 1

\* The numeric value of the numeric lines of this model, 0 for the others.
TokenId(token) ==
    CASE token = <<"1">> -> 1
      [] token = <<"2">> -> 2
      [] token = <<"7">> -> 7
      [] OTHER -> 0

\* The lines of this model that are neither a number nor "all".
InvalidTokens == {<<"x">>, <<"1", "x">>}

\* C8: a command that is a number matching no record, or that is neither a
\* number nor "all", sends no termination request, ends no process and leaves
\* the registry and the history unchanged; the view reports "not found" or
\* "invalid input" and goes back to sleep.
C8_UnknownCommandNoEffect ==
    [][\A m \in Monitors :
          LET token == Head(chan[m])
              notfound == TokenId(token) # 0 /\ TokenId(token) \notin Ids(active_timers)
              invalid == token \in InvalidTokens
          IN  (Consumes(m) /\ (notfound \/ invalid)) =>
                 /\ active_timers' = active_timers
                 /\ seq' = seq
                 /\ timer_history' = timer_history
                 /\ sigterm' = sigterm
                 /\ pc' = pc
                 /\ mpc'[m] = "sleep"
                 /\ notfound => out'[m] = "No active timer with that ID."
                 /\ invalid => out'[m] = "Invalid input."]_vars

\* A number matching no record was typed while the registry held a record:
\* the view reported it, the record is still there, nothing was signalled.
C8_Witness ==
    \E m \in Monitors :
        /\ out[m] = "No active timer with that ID."
        /\ active_timers # {}
        /\ \A p \in TimerPids : sigterm[p] = 0

\* C9: every live timer process has at most one record in the registry, also
\* across Snooze and Restart, which remove the old record before they insert
\* the new one.
C9_AtMostOneRecord ==
    \A p \in TimerPids : Live(p) => Cardinality(RecordsOf(p)) <= 1

\* A timer waits again after a Snooze and its only record is the snoozed one.
C9_Witness ==
    \E p \in TimerPids :
        /\ pc[p] = "wait"
        /\ Cardinality(RecordsOf(p)) = 1
        /\ \A r \in RecordsOf(p) : r.message = "(Snoozed) " \o MessageArg(p)

\* C10: every timer process that waits (Running) or awaits the popup's answer
\* (Expired) has exactly one record in the registry.
C10_ExactlyOneRecord ==
    \A p \in TimerPids :
        pc[p] \in {"wait", "expired"} => Cardinality(RecordsOf(p)) = 1

\* The history entries of timer process p: its message, plain or prefixed.
HistoryOf(p) ==
    {i \in DOMAIN timer_history :
        timer_history[i].message \in {MessageArg(p),
                                      "(Snoozed) " \o MessageArg(p),
                                      "(Restarted) " \o MessageArg(p)}}

\* Timer process p enters Running (starts a wait) in this step.
EntersRunning(p) == pc[p] # "wait" /\ pc'[p] = "wait"

\* C11: the history is append-only, at most one entry per step; an entry is
\* appended only by a timer on its way into Running: the creation entry
\* (original duration and message) just before the first record is inserted,
\* and one entry with the new record's duration and prefixed message on each
\* Snooze or Restart re-entry; every entry into Running has exactly one such
\* entry; Stop, a kill and the live view append nothing.
C11_OneEntryPerRunning ==
    [][LET n == Len(timer_history)
           grown == Len(timer_history') = n + 1
       IN  /\ Len(timer_history') \in {n, n + 1}
           /\ SubSeq(timer_history', 1, n) = timer_history
           /\ grown =>
                 \E p \in TimerPids :
                    LET e == timer_history'[n + 1]
                    IN  \/ /\ pc[p] = "main" /\ pc'[p] = "register"
                           /\ e.duration = DurationArg(p)
                           /\ e.message = MessageArg(p)
                           /\ e.fg = FgArg(p)
                        \/ /\ pc[p] = "snooze_log" /\ EntersRunning(p)
                           /\ e.duration = ConfiguredSnoozeStr
                           /\ e.message = "(Snoozed) " \o MessageArg(p)
                        \/ /\ pc[p] = "restart_log" /\ EntersRunning(p)
                           /\ e.duration = DurationArg(p)
                           /\ e.message = "(Restarted) " \o MessageArg(p)
           /\ \A p \in TimerPids :
                 /\ pc[p] = "main" => HistoryOf(p) = {}
                 /\ EntersRunning(p) =>
                       IF pc[p] = "register"
                       THEN /\ ~grown
                            /\ Cardinality(HistoryOf(p)) = 1
                            /\ \A r \in active_timers' \ active_timers :
                                  \A i \in HistoryOf(p) :
                                     /\ timer_history[i].duration = r.duration
                                     /\ timer_history[i].message = r.message
                       ELSE /\ grown
                            /\ HistoryOf(p)' = HistoryOf(p) \cup {n + 1}
                 /\ (pc[p] = "register" /\ ~EntersRunning(p)) => pc'[p] = "register"
                 /\ (pc'[p] \in {"stopped", "killed", "panicked"} /\ pc[p] # pc'[p])
                       => ~grown
           /\ (mpc' # mpc) => ~grown]_vars

\* A timer was created, restarted once and stopped: two entries, the creation
\* and the restart, and the Stop added none.
C11_Witness ==
    \E p \in TimerPids :
        /\ pc[p] = "stopped"
        /\ Cardinality(HistoryOf(p)) = 2
        /\ \E i \in HistoryOf(p) :
              timer_history[i].message = "(Restarted) " \o MessageArg(p)

\* C12: an id command whose id is in the registry when the command looks it
\* up reads that record's process id, sends that process exactly one
\* termination request (whatever state the process is in, and nothing is
\* sent to any other process), then deletes the record with that id and no
\* other record, and goes to sleep without a second attempt.
C12_IdKillsOnceAndRemoves ==
    [][\A m \in Monitors :
          /\ (Consumes(m) /\ TokenId(Head(chan[m])) \in Ids(active_timers)) =>
                /\ mpc'[m] = "id_kill"
                /\ target'[m].id = TokenId(Head(chan[m]))
                /\ \E r \in active_timers :
                      /\ r.id = TokenId(Head(chan[m]))
                      /\ target'[m].pids = <<r.pid>>
                /\ sigterm' = sigterm
                /\ active_timers' = active_timers
          /\ (mpc[m] = "id_kill" /\ mpc'[m] \notin {"id_kill", "exited"}) =>
                /\ mpc'[m] = "id_delete"
                /\ \A p \in TimerPids :
                      sigterm'[p] = sigterm[p] + (IF <<p>> = target[m].pids THEN 1 ELSE 0)
                /\ \A p \in TimerPids :
                      pc'[p] = IF <<p>> = target[m].pids /\ Live(p) THEN "killed" ELSE pc[p]
                /\ active_timers' = active_timers
          /\ (mpc[m] = "id_delete" /\ mpc'[m] \notin {"id_delete", "exited"}) =>
                /\ mpc'[m] = "sleep"
                /\ sigterm' = sigterm
                /\ target[m].id \notin Ids(active_timers')
                /\ active_timers' = {r \in active_timers : r.id # target[m].id}]_vars

\* An id command has completed on a waiting timer: one request was sent to it,
\* it is gone, and its record is gone while the other timer's record stays.
C12_Witness ==
    \E m \in Monitors, p \in TimerPids :
        /\ out[m] = "Killed timer with PID"
        /\ mpc[m] = "sleep"
        /\ sigterm[p] = 1
        /\ pc[p] = "killed"
        /\ RecordsOf(p) = {}
        /\ \A q \in TimerPids \ {p} : sigterm[q] = 0 /\ RecordsOf(q) # {}

\* The process ids of the records the frame of live view m has printed.
DisplayedPids(m) ==
    {snapshot[m][i].pid : i \in {j \in DOMAIN snapshot[m] : snapshot[m][j].id \in rendered[m]}}

\* C13, as stated: a command sends a termination request only to processes
\* whose record is in the snapshot of the frame just displayed and was
\* printed in it.
C13_CommandsUseDisplayedSnapshot ==
    [][\A m \in Monitors :
          (mpc[m] \in {"all_kill", "id_kill"} /\ mpc'[m] \in {"all_delete", "id_delete"}) =>
             \A p \in TimerPids :
                sigterm'[p] > sigterm[p] => p \in DisplayedPids(m)]_vars

\* C13, amended: a command is evaluated by a query of the registry at the
\* moment it is processed.  "all" reads the process id of every record then
\* in the registry, an id command that of the record with that id if it is
\* then in the registry (and reports "not found" otherwise), whether or not
\* the record was in the displayed snapshot; requests go to exactly the
\* process ids so read.
C13_CommandsUseCurrentRegistry ==
    [][/\ \A m \in Monitors :
             /\ (Consumes(m) /\ Head(chan[m]) \in AllTokens) =>
                   target'[m].pids = [i \in 1..Cardinality(active_timers) |->
                                         OrderById(active_timers)[i].pid]
             /\ (Consumes(m) /\ TokenId(Head(chan[m])) # 0) =>
                   IF TokenId(Head(chan[m])) \in Ids(active_timers)
                   THEN \E r \in active_timers :
                           /\ r.id = TokenId(Head(chan[m]))
                           /\ target'[m].pids = <<r.pid>>
                   ELSE /\ mpc'[m] = "sleep"
                        /\ out'[m] = "No active timer with that ID."
       /\ \A p \in TimerPids :
             sigterm'[p] # sigterm[p] =>
                \E m \in Monitors :
                   /\ mpc[m] \in {"all_kill", "id_kill"}
                   /\ mpc'[m] \in {"all_delete", "id_delete"}
                   /\ p \in Range(target[m].pids)]_vars

\* A command has signalled a process whose record was not in the snapshot of
\* the frame on display: it was registered after the snapshot was taken.
C13_Witness ==
    \E m \in Monitors, p \in TimerPids :
        /\ mpc[m] \in {"all_delete", "id_delete"}
        /\ p \in Range(target[m].pids)
        /\ sigterm[p] >= 1
        /\ \A i \in DOMAIN snapshot[m] : snapshot[m][i].pid # p

\* C14: no store error ends the live view: whatever statement fails, in the
\* snapshot, the reap or a command, the loop stays in the loop (only the
\* interrupt ends it).
C14_StoreErrorsAreCaught ==
    [][\A m \in Monitors :
          mpc'[m] # mpc[m] =>
             \/ mpc'[m] \in {"sleep", "scan", "poll", "all_kill", "all_delete",
                             "id_kill", "id_delete"}
             \/ mpc'[m] = "exited"]_vars

\* C15: whatever the popup does other than answer Snooze or Restart (it does
\* not start, crashes, is killed, prints anything else), the Expired timer
\* takes Stop: unless the process is terminated from outside, it leaves
\* Expired only towards Snooze, Restart or Stopped, and when it ends its own
\* record is no longer in the registry.
C15_PopupFailureStops ==
    [][\A p \in TimerPids :
          (pc[p] = "expired" /\ pc'[p] \notin {"expired", "killed"}) =>
             /\ pc'[p] \in {"snooze_register", "restart_register", "stopped"}
             /\ pc'[p] = "stopped" => active_timer_id[p] \notin Ids(active_timers')]_vars

\* The id a step's DELETE .. WHERE id = ? is aimed at: the owner's Stop, Snooze
\* or Restart, a reap by a live view, or the delete of an id command; 0 when
\* the step is none of these.
DeletedId ==
    IF \E p \in TimerPids : Unregisters(p)
    THEN active_timer_id[CHOOSE p \in TimerPids : Unregisters(p)]
    ELSE IF \E m \in Monitors : Scans(m)
    THEN LET m == CHOOSE k \in Monitors : Scans(k) IN snapshot[m][idx[m]].id
    ELSE IF \E m \in Monitors : mpc[m] = "id_delete" /\ mpc'[m] = "sleep"
    THEN target[CHOOSE m \in Monitors : mpc[m] = "id_delete" /\ mpc'[m] = "sleep"].id
    ELSE 0

\* C16: with the owner, any number of live views and an id command deleting
\* the same id in any order, each delete completes, removes the record with
\* its id if it is still there and no other record; a reap from an old
\* snapshot leaves a replacement record alone, whose id is new.  (The "all"
\* command, which clears the table, is the only step that removes more.)
C16_DeletesOfSameIdCommute ==
    [][LET removed == active_timers \ active_timers'
       IN  \/ \E m \in Monitors : mpc[m] = "all_delete" /\ mpc'[m] = "sleep"
           \/ /\ \A r \in removed : r.id = DeletedId
              /\ \A p \in TimerPids :
                    Unregisters(p) => active_timer_id[p] \notin Ids(active_timers')
              /\ \A m \in Monitors :
                    /\ (mpc[m] = "id_delete" /\ mpc'[m] = "sleep")
                          => target[m].id \notin Ids(active_timers')
                    /\ Scans(m) =>
                          \A r \in active_timers :
                             r.id \notin {snapshot[m][i].id : i \in DOMAIN snapshot[m]}
                                => r \in active_timers']_vars

\* The owner stopped and both live views, each from its own snapshot, reaped
\* the same id; the record that was not aimed at is still in the registry.
C16_Witness ==
    \E p \in TimerPids :
        /\ pc[p] = "stopped"
        /\ \A m \in Monitors :
              \E i \in DOMAIN snapshot[m] :
                 /\ i < idx[m]
                 /\ snapshot[m][i].id = active_timer_id[p]
                 /\ snapshot[m][i].id \notin rendered[m]
        /\ active_timer_id[p] \notin Ids(active_timers)
        /\ active_timers # {}

\* C17: the loop never waits for input.  A frame polls the channel once: the
\* step out of the poll takes at most one line off the channel, lines leave
\* the channel in no other step, and the next poll comes only after a new
\* snapshot; with nothing in the channel the loop can go on at once, to its
\* one-second sleep.  As long as it is not interrupted, every poll is
\* followed by the sleep, and every sleep that ends within the time of the
\* model by the next frame, input or no input.
C17_LoopNeverWaitsForInput ==
    /\ [][\A m \in Monitors :
             /\ Len(chan'[m]) < Len(chan[m]) =>
                   \/ mpc'[m] = "exited"
                   \/ /\ mpc[m] = "poll" /\ mpc'[m] # "poll"
                      /\ chan'[m] = Tail(chan[m])
             /\ (mpc[m] # "poll" /\ mpc'[m] = "poll") =>
                   mpc[m] \in {"launch", "sleep", "scan"}
             /\ (mpc[m] = "poll" /\ chan[m] = <<>> /\ mpc'[m] \notin {"poll", "exited"}) =>
                   /\ mpc'[m] = "sleep"
                   /\ mwake'[m] = now + FrameSleepMs]_vars
    /\ [](\A m \in Monitors :
             (mpc[m] = "poll" /\ chan[m] = <<>>) => ENABLED MonitorPollEmpty(m))
    /\ \A m \in Monitors :
          /\ (mpc[m] = "poll") ~> (mpc[m] \in {"sleep", "exited"})
          /\ (mpc[m] = "sleep" /\ mwake[m] <= MaxNow) ~> (mpc[m] \in {"scan", "poll", "exited"})

\* Nothing was ever typed and the view is in its third frame or later, with a
\* record it reaped in this frame.
C17_Witness ==
    \E m \in Monitors :
        /\ typed = 0
        /\ mpc[m] = "poll"
        /\ now >= 2 * FrameSleepMs
        /\ \E i \in DOMAIN snapshot[m] : snapshot[m][i].id \notin rendered[m]

\* The positions of a running live view.
LoopPositions == {"sleep", "scan", "poll", "all_kill", "all_delete", "id_kill",
                  "id_delete"}

\* C18: Ctrl+C can end the live view at every position of its loop; the step
\* that ends it changes neither the registry nor the history, signals no
\* process and ends no timer; an ended view takes no further step, so what it
\* had begun (the delete after a kill) is not completed.
C18_InterruptLeavesStore ==
    /\ [][\A m \in Monitors :
             /\ (mpc[m] # "exited" /\ mpc'[m] = "exited") =>
                   /\ mpc[m] \in LoopPositions
                   /\ active_timers' = active_timers
                   /\ seq' = seq
                   /\ timer_history' = timer_history
                   /\ sigterm' = sigterm
                   /\ pc' = pc
                   /\ now' = now
             /\ mpc[m] = "exited" =>
                   /\ mpc'[m] = "exited"
                   /\ chan'[m] = <<>> /\ target'[m] = NoTarget]_vars
    /\ [](\A m \in Monitors : mpc[m] \in LoopPositions => ENABLED MonitorInterrupt(m))

\* A view was interrupted between the kill and the delete of a command: the
\* process it signalled is gone and its record is still in the registry.
C18_Witness ==
    \E m \in Monitors, p \in TimerPids :
        /\ mpc[m] = "exited"
        /\ sigterm[p] >= 1
        /\ pc[p] = "killed"
        /\ RecordsOf(p) # {}

C20_AllDeletesOnlySignalled ==
    [][\A m \in Monitors :
          (mpc[m] = "all_delete" /\ mpc'[m] = "sleep") =>
              \A r \in active_timers :
                 /\ r.pid \in Range(target[m].pids)
                 /\ ~Live(r.pid)]_vars

\* C21: the display loop never reaps a record whose remaining time, the
\* stored start plus the parsed duration minus the current time, is strictly
\* positive: the pass that reaches such a record prints it and leaves it in
\* the registry.
C21_PositiveTimeLeftIsKept ==
    [][\A m \in Monitors :
          Scans(m) =>
             LET r == snapshot[m][idx[m]]
             IN  (parse_duration(r.duration).ok /\ time_left(r, now) > 0) =>
                    /\ r.id \in rendered'[m]
                    /\ r \in active_timers => r \in active_timers']_vars

\* C22: a record whose owning timer process has ended without removing it
\* (terminated from outside during its wait) is eventually removed from the
\* registry, as long as a live view keeps executing its loop.
C22_OrphanRecordsAreReaped ==
    \A p \in TimerPids :
        (~Live(p) /\ RecordsOf(p) # {})
            ~> (RecordsOf(p) = {} \/ \A m \in Monitors : mpc[m] \notin LoopPositions)

\* A timer was terminated from outside, not by a view, and a frame has passed
\* the record it left behind and removed it.
C22_Witness ==
    \E m \in Monitors, p \in TimerPids :
        /\ pc[p] = "killed"
        /\ sigterm[p] = 0
        /\ RecordsOf(p) = {}
        /\ mpc[m] \in {"scan", "poll"}
        /\ \E i \in DOMAIN snapshot[m] :
              /\ i < idx[m]
              /\ snapshot[m][i].pid = p
              /\ snapshot[m][i].id \notin rendered[m]

\* The step of live view m carries out the command `token`: "all" starts the
\* kill of every record, a number that is a record's id starts the kill of
\* that record, any other number is reported as not found, anything else as
\* invalid.
Processes(m, token) ==
    CASE token \in AllTokens ->
            mpc'[m] = "all_kill"
      [] token \notin AllTokens /\ TokenId(token) \in Ids(active_timers) ->
            mpc'[m] = "id_kill" /\ target'[m].id = TokenId(token)
      [] token \notin AllTokens /\ TokenId(token) \notin Ids(active_timers)
            /\ token \notin InvalidTokens ->
            mpc'[m] = "sleep" /\ out'[m] = "No active timer with that ID."
      [] OTHER ->
            mpc'[m] = "sleep" /\ out'[m] = "Invalid input."

\* C23: the channel of a live view changes only by a typed line, trimmed and
\* not blank, joining it at its end, by the loop taking the line at its head,
\* or by the view's exit; the loop takes a line only at its poll, carries out
\* the command that line spells, and leaves the poll with it (one command per
\* frame); a command is started only by taking a line; and a line waiting in
\* the channel is eventually taken, as long as the loop keeps running.
C23_LinesProcessedInOrder ==
    /\ [][\A m \in Monitors :
             /\ chan'[m] # chan[m] =>
                   \/ /\ mpc'[m] = mpc[m]
                      /\ \E line \in TypedLines :
                            /\ trim(line) # <<>>
                            /\ chan'[m] = Append(chan[m], trim(line))
                   \/ Consumes(m)
                   \/ mpc'[m] = "exited"
             /\ Consumes(m) =>
                   /\ Processes(m, Head(chan[m]))
                   /\ mpc'[m] # "poll"
             /\ (mpc[m] = "poll" /\ mpc'[m] \in {"all_kill", "id_kill"}) => Consumes(m)
             /\ (out'[m] # out[m] /\ out'[m] # "" /\ mpc[m] = "poll") => Consumes(m)]_vars
    /\ \A m \in Monitors :
          (chan[m] # <<>>) ~> (chan[m] = <<>> \/ mpc[m] \notin LoopPositions)

\* Two lines were typed, "all" and then "x"; the view killed the timers, paused,
\* and in a later frame reported the second line as invalid.
C23_Witness ==
    \E m \in Monitors :
        /\ typed = MaxTyped
        /\ chan[m] = <<>>
        /\ mpc[m] = "sleep"
        /\ out[m] = "Invalid input."
        /\ \E p \in TimerPids : sigterm[p] >= 1

\* C24: a timer process enters Expired no earlier than the end of its current
\* record, the stored start plus the parsed duration, in the background (one
\* sleep) and in the foreground (the countdown), whatever the duration.
C24_ExpiresNoEarlierThanRecord ==
    [][\A p \in TimerPids :
          (pc[p] = "wait" /\ pc'[p] = "expired") =>
              \A r \in RecordsOf(p) :
                 r.id = active_timer_id[p] => time_left(r, now) <= 0]_vars

=============================================================================
